---- MODULE Spec2Model ----
(***************************************************************************)
(* Model of sureal/dataset_loader.py: the dataset validator, the format    *)
(* dispatch of load_dataset, the three loaders, and the JSON serializer.   *)
(*                                                                         *)
(* Python values are tagged records [kind, val].  A Python str is the      *)
(* sequence of its characters, so that startswith, lower and the suffix of *)
(* a file name are computed and not assumed.  A dict is the sequence of    *)
(* its <<key, value>> pairs in insertion order.                            *)
(***************************************************************************)
EXTENDS Integers, Sequences, FiniteSets, TLC

VARIABLES
    data,            \* the tree handed to a direct validate_dataset call
    filepath,        \* the filepath argument of the call (<<>> is None)
    fs,              \* the file system: path -> content of the file, or NoFile
    yaml_installed,  \* whether `import yaml` succeeds
    dataset,         \* what the load call returned (test's `dataset`)
    loaded,          \* outcome of that load call
    dataset2,        \* what loading the saved file returned (test's `dataset2`)
    result           \* outcome of the last call

vars == <<data, filepath, fs, yaml_installed, dataset, loaded, dataset2, result>>

(***************************************************************************)
(* Bounds of the model.                                                    *)
(***************************************************************************)
MaxRef == 2     \* longest ref_videos list drawn for a direct validator call
MaxDis == 2     \* longest dis_videos list drawn for a direct validator call
MaxFileRef == 2 \* longest ref_videos list in a dataset file
MaxFileDis == 2 \* longest dis_videos list in a dataset file
MaxEntries == 3 \* most top-level entries of a dataset handed to save_dataset_json

(***************************************************************************)
(* Python values.                                                          *)
(***************************************************************************)
PyNone       == [kind |-> "none",  val |-> 0]
PyInt(n)     == [kind |-> "int",   val |-> n]
PyFloat(n)   == [kind |-> "float", val |-> n]
PyStr(cs)    == [kind |-> "str",   val |-> cs]
PyList(vs)   == [kind |-> "list",  val |-> vs]
PyTuple(vs)  == [kind |-> "tuple", val |-> vs]
PyDict(kvs)  == [kind |-> "dict",  val |-> kvs]
Opaque     == [kind |-> "object", val |-> 0]   \* a function, a module reference
NoValue    == [kind |-> "absent", val |-> 0]   \* nothing was returned

REF_VIDEOS   == PyStr(<<"r","e","f","_","v","i","d","e","o","s">>)
DIS_VIDEOS   == PyStr(<<"d","i","s","_","v","i","d","e","o","s">>)
CONTENT_ID   == PyStr(<<"c","o","n","t","e","n","t","_","i","d">>)
CONTENT_NAME == PyStr(<<"c","o","n","t","e","n","t","_","n","a","m","e">>)
ASSET_ID     == PyStr(<<"a","s","s","e","t","_","i","d">>)
PATH         == PyStr(<<"p","a","t","h">>)
OS           == PyStr(<<"o","s">>)
DATASET_NAME == PyStr(<<"d","a","t","a","s","e","t","_","n","a","m","e">>)
REF_SCORE    == PyStr(<<"r","e","f","_","s","c","o","r","e">>)

\* Python's `a in s` for two str values: a is a substring of s.
IsSubstring(a, s) ==
    \E i \in 1..(Len(s) + 1) :
        /\ i + Len(a) - 1 <= Len(s)
        /\ SubSeq(s, i, i + Len(a) - 1) = a

\* The container kinds for which `x in d` is defined; any other raises TypeError.
SupportsIn(d) == d.kind \in {"dict", "list", "tuple", "str"}

\* Python's `x in d`, for a d with SupportsIn(d).
In(x, d) ==
    CASE d.kind = "dict" -> \E i \in 1..Len(d.val) : d.val[i][1] = x
      [] d.kind = "str"  -> x.kind = "str" /\ IsSubstring(x.val, d.val)
      [] OTHER           -> \E i \in 1..Len(d.val) : d.val[i] = x

\* Python's d[k] for a dict d that holds k.
Get(d, k) == d.val[CHOOSE i \in 1..Len(d.val) : d.val[i][1] = k][2]

(***************************************************************************)
(* validate_dataset.  The outcome is "ok", a DatasetValidationError whose  *)
(* message is kept by its parts (what failed, in which list, at which      *)
(* 0-based index, for which field, from which file), or a TypeError.       *)
(***************************************************************************)
NoIdx == -1

Outcome(status, what, container, idx, field, source) ==
    [status |-> status, what |-> what, container |-> container,
     idx |-> idx, field |-> field, source |-> source]

Passed == Outcome("ok", "", <<>>, NoIdx, <<>>, <<>>)

TypeError == Outcome("TypeError", "", <<>>, NoIdx, <<>>, <<>>)

DatasetValidationError(what, container, idx, field, fp) ==
    Outcome("DatasetValidationError", what, container.val, idx, field.val, fp)

\* A validator that also requires content_name, as the docstring lists it.
REF_FIELDS_with_content_name == <<CONTENT_ID, CONTENT_NAME, PATH>>

REF_FIELDS == <<CONTENT_ID, PATH>>
DIS_FIELDS == <<ASSET_ID, CONTENT_ID, PATH, OS>>

\* The inner `for field in [...]: if field not in video` loop: the position of
\* the first field the element lacks, 0 when it has them all.
RECURSIVE first_missing(_, _, _)
first_missing(video, fields, j) ==
    IF j > Len(fields) THEN 0
    ELSE IF ~In(fields[j], video) THEN j
    ELSE first_missing(video, fields, j + 1)

\* for i, ref_video in enumerate(data['ref_videos']), from element i (1-based).
RECURSIVE check_ref_videos(_, _, _)
check_ref_videos(videos, i, fp) ==
    IF i > Len(videos) THEN Passed
    ELSE IF videos[i].kind # "dict"
        THEN DatasetValidationError("must_be_dict", REF_VIDEOS, i - 1, PyStr(<<>>), fp)
    ELSE LET j == first_missing(videos[i], REF_FIELDS, 1) IN
        IF j # 0
        THEN DatasetValidationError("missing_field", REF_VIDEOS, i - 1, REF_FIELDS[j], fp)
        ELSE check_ref_videos(videos, i + 1, fp)

os_shape_ok(os_field) == os_field.kind \in {"list", "tuple", "dict"}

\* A validator that checks the fields of every dis_videos element before the
\* 'os' shape of any: two passes over the list in place of one.
RECURSIVE check_dis_fields_pass(_, _, _)
check_dis_fields_pass(videos, i, fp) ==
    IF i > Len(videos) THEN Passed
    ELSE IF videos[i].kind # "dict"
        THEN DatasetValidationError("must_be_dict", DIS_VIDEOS, i - 1, PyStr(<<>>), fp)
    ELSE LET j == first_missing(videos[i], DIS_FIELDS, 1) IN
        IF j # 0
        THEN DatasetValidationError("missing_field", DIS_VIDEOS, i - 1, DIS_FIELDS[j], fp)
        ELSE check_dis_fields_pass(videos, i + 1, fp)

RECURSIVE check_dis_os_pass(_, _, _)
check_dis_os_pass(videos, i, fp) ==
    IF i > Len(videos) THEN Passed
    ELSE IF ~os_shape_ok(Get(videos[i], OS))
        THEN DatasetValidationError("os_shape", DIS_VIDEOS, i - 1, OS, fp)
    ELSE check_dis_os_pass(videos, i + 1, fp)

check_dis_videos_two_passes(videos, i, fp) ==
    LET r == check_dis_fields_pass(videos, i, fp) IN
        IF r.status # "ok" THEN r ELSE check_dis_os_pass(videos, i, fp)

\* for i, dis_video in enumerate(data['dis_videos']), from element i (1-based).
RECURSIVE check_dis_videos(_, _, _)
check_dis_videos(videos, i, fp) ==
    IF i > Len(videos) THEN Passed
    ELSE IF videos[i].kind # "dict"
        THEN DatasetValidationError("must_be_dict", DIS_VIDEOS, i - 1, PyStr(<<>>), fp)
    ELSE LET j == first_missing(videos[i], DIS_FIELDS, 1) IN
        IF j # 0
        THEN DatasetValidationError("missing_field", DIS_VIDEOS, i - 1, DIS_FIELDS[j], fp)
        ELSE IF ~os_shape_ok(Get(videos[i], OS))
        THEN DatasetValidationError("os_shape", DIS_VIDEOS, i - 1, OS, fp)
        ELSE check_dis_videos(videos, i + 1, fp)

validate_dataset(tree, fp) ==
    IF ~SupportsIn(tree) THEN TypeError
    ELSE IF ~In(REF_VIDEOS, tree)
        THEN DatasetValidationError("missing_top", PyStr(<<>>), NoIdx, REF_VIDEOS, fp)
    ELSE IF ~In(DIS_VIDEOS, tree)
        THEN DatasetValidationError("missing_top", PyStr(<<>>), NoIdx, DIS_VIDEOS, fp)
    ELSE IF tree.kind # "dict" THEN TypeError      \* data['ref_videos'] on a list or str
    ELSE IF Get(tree, REF_VIDEOS).kind # "list"
        THEN DatasetValidationError("must_be_list", PyStr(<<>>), NoIdx, REF_VIDEOS, fp)
    ELSE LET r == check_ref_videos(Get(tree, REF_VIDEOS).val, 1, fp) IN
        IF r.status # "ok" THEN r
        ELSE IF Get(tree, DIS_VIDEOS).kind # "list"
        THEN DatasetValidationError("must_be_list", PyStr(<<>>), NoIdx, DIS_VIDEOS, fp)
        ELSE check_dis_videos(Get(tree, DIS_VIDEOS).val, 1, fp)

(***************************************************************************)
(* File contents.  A file holds text in one syntax; the text of a JSON or  *)
(* YAML file is kept as the document it spells (objects, arrays, strings,  *)
(* numbers, null), the text of a Python file as the module that executing  *)
(* it binds.  json.dumps / json.load convert between Python values and     *)
(* documents.                                                              *)
(***************************************************************************)
JNull       == [kind |-> "null",   val |-> 0]
JNumber(n)  == [kind |-> "number", val |-> <<"int", n>>]
JReal(n)    == [kind |-> "number", val |-> <<"float", n>>]
JString(cs) == [kind |-> "string", val |-> cs]
JArray(ds)  == [kind |-> "array",  val |-> ds]
JObject(ms) == [kind |-> "object", val |-> ms]

File(format, text) == [format |-> format, text |-> text]

NoFile  == File("none", JNull)
Garbage == File("garbage", JNull)

DIGITS == <<"0", "1", "2", "3", "4", "5", "6", "7", "8", "9">>

\* str(n) for n >= 0.
RECURSIVE IntToStr(_)
IntToStr(n) ==
    IF n < 10 THEN <<DIGITS[n + 1]>>
    ELSE IntToStr(n \div 10) \o <<DIGITS[(n % 10) + 1]>>

\* json.dumps(value) succeeds: no TypeError.
RECURSIVE Serializable(_)
Serializable(v) ==
    CASE v.kind \in {"none", "int", "float", "str"} -> TRUE
      [] v.kind \in {"list", "tuple"} -> \A i \in 1..Len(v.val) : Serializable(v.val[i])
      [] v.kind = "dict" ->
            \A i \in 1..Len(v.val) :
                /\ v.val[i][1].kind \in {"str", "int", "none"}
                /\ Serializable(v.val[i][2])
      [] OTHER -> FALSE

\* The key json.dumps writes for a dict key: str as is, int and None coerced.
EncodeKey(k) ==
    CASE k.kind = "str" -> JString(k.val)
      [] k.kind = "int" -> JString(IntToStr(k.val))
      [] OTHER          -> JString(<<"n","u","l","l">>)

\* The document json.dumps writes for a serializable value.
RECURSIVE Encode(_)
Encode(v) ==
    CASE v.kind = "none"  -> JNull
      [] v.kind = "int"   -> JNumber(v.val)
      [] v.kind = "float" -> JReal(v.val)
      [] v.kind = "str"   -> JString(v.val)
      [] v.kind \in {"list", "tuple"} ->
            JArray([i \in 1..Len(v.val) |-> Encode(v.val[i])])
      [] v.kind = "dict"  ->
            JObject([i \in 1..Len(v.val) |->
                        <<EncodeKey(v.val[i][1]), Encode(v.val[i][2])>>])

\* The Python value json.load / yaml.safe_load builds from a document.
RECURSIVE Decode(_)
Decode(d) ==
    CASE d.kind = "null"   -> PyNone
      [] d.kind = "number" -> IF d.val[1] = "int" THEN PyInt(d.val[2]) ELSE PyFloat(d.val[2])
      [] d.kind = "string" -> PyStr(d.val)
      [] d.kind = "array"  -> PyList([i \in 1..Len(d.val) |-> Decode(d.val[i])])
      [] d.kind = "object" ->
            PyDict([i \in 1..Len(d.val) |-> <<Decode(d.val[i][1]), Decode(d.val[i][2])>>])

\* JSON text has only strings as object keys; YAML allows any scalar.
RECURSIVE IsJson(_)
IsJson(d) ==
    CASE d.kind = "array"  -> \A i \in 1..Len(d.val) : IsJson(d.val[i])
      [] d.kind = "object" ->
            \A i \in 1..Len(d.val) : d.val[i][1].kind = "string" /\ IsJson(d.val[i][2])
      [] OTHER -> TRUE

Returned(status, error, trace, value) ==
    [status |-> status, error |-> error, trace |-> trace, value |-> value]

Raised(status, trace) == Returned(status, Passed, trace, NoValue)

\* json.load(f): the parsed tree, or JSONDecodeError.
json_load(file) ==
    IF file.format = "json" /\ IsJson(file.text)
    THEN Returned("ok", Passed, <<>>, Decode(file.text))
    ELSE Raised("JSONDecodeError", <<>>)

\* yaml.safe_load(f): the parsed tree, or YAMLError.  JSON text is YAML text;
\* what the parser makes of Python source or of other text is taken to be an error.
yaml_safe_load(file) ==
    IF file.format \in {"json", "yaml"}
    THEN Returned("ok", Passed, <<>>, Decode(file.text))
    ELSE Raised("YAMLError", <<>>)

\* SourceFileLoader(filename, filepath).load_module(): the module, or SyntaxError
\* (text that is no Python source is taken not to load).
load_module(file) ==
    IF file.format = "python"
    THEN Returned("ok", Passed, <<>>, file.text)
    ELSE Raised("SyntaxError", <<>>)

\* Namespace(**data): keyword names must be strings.
_dict_to_namespace(tree) ==
    IF \A i \in 1..Len(tree.val) : tree.val[i][1].kind = "str"
    THEN Returned("ok", Passed, <<>>, [kind |-> "Namespace", val |-> tree.val])
    ELSE Raised("TypeError", <<>>)

\* validate_dataset(data, filepath); return _dict_to_namespace(data)
validate_and_convert(tree, fp, trace) ==
    LET v == validate_dataset(tree, fp) IN
        IF v.status # "ok"
        THEN Returned(v.status, v, trace \o <<"validate_dataset">>, NoValue)
        ELSE LET ns == _dict_to_namespace(tree) IN
            Returned(ns.status, Passed,
                     trace \o <<"validate_dataset", "_dict_to_namespace">>, ns.value)

\* A JSON loader that converts the parsed tree without validating it.
load_json_dataset_unvalidated(files, fp) ==
    IF files[fp] = NoFile THEN Raised("FileNotFoundError", <<"open">>)
    ELSE LET parsed == json_load(files[fp]) IN
        IF parsed.status # "ok" THEN Raised(parsed.status, <<"open", "json.load">>)
        ELSE LET ns == _dict_to_namespace(parsed.value) IN
            Returned(ns.status, Passed, <<"open", "json.load", "_dict_to_namespace">>, ns.value)

load_json_dataset(files, fp) ==
    IF files[fp] = NoFile THEN Raised("FileNotFoundError", <<"open">>)
    ELSE LET parsed == json_load(files[fp]) IN
        IF parsed.status # "ok" THEN Raised(parsed.status, <<"open", "json.load">>)
        ELSE validate_and_convert(parsed.value, fp, <<"open", "json.load">>)

load_yaml_dataset(files, fp, has_yaml) ==
    IF ~has_yaml THEN Raised("ImportError", <<"import yaml">>)
    ELSE IF files[fp] = NoFile THEN Raised("FileNotFoundError", <<"import yaml", "open">>)
    ELSE LET parsed == yaml_safe_load(files[fp]) IN
        IF parsed.status # "ok"
        THEN Raised(parsed.status, <<"import yaml", "open", "yaml.safe_load">>)
        ELSE validate_and_convert(parsed.value, fp,
                                  <<"import yaml", "open", "yaml.safe_load">>)

load_python_dataset(files, fp) ==
    IF files[fp] = NoFile THEN Raised("FileNotFoundError", <<"load_module">>)
    ELSE LET m == load_module(files[fp]) IN
        Returned(m.status, Passed, <<"load_module">>, m.value)

(***************************************************************************)
(* load_dataset: existence, then the extension, then the loader.           *)
(***************************************************************************)
UPPER == <<"A","B","C","D","E","F","G","H","I","J","K","L","M",
           "N","O","P","Q","R","S","T","U","V","W","X","Y","Z">>
LOWER == <<"a","b","c","d","e","f","g","h","i","j","k","l","m",
           "n","o","p","q","r","s","t","u","v","w","x","y","z">>

\* A format detection that compares the suffix as written.
lower_missing(cs) == cs

\* str.lower(), character by character.
lower(cs) ==
    [i \in 1..Len(cs) |->
        IF \E u \in 1..Len(UPPER) : UPPER[u] = cs[i]
        THEN LOWER[CHOOSE u \in 1..Len(UPPER) : UPPER[u] = cs[i]]
        ELSE cs[i]]

\* The largest position of character c in cs, 0 when it does not occur.
rfind(cs, c) ==
    IF \E i \in 1..Len(cs) : cs[i] = c
    THEN CHOOSE i \in 1..Len(cs) : cs[i] = c /\ \A j \in (i + 1)..Len(cs) : cs[j] # c
    ELSE 0

\* Path(filepath).name: the part after the last "/".
path_name(fp) == SubSeq(fp, rfind(fp, "/") + 1, Len(fp))

\* Path(filepath).suffix: from the last "." of the name, unless the name
\* starts or ends with it.
suffix(fp) ==
    LET name == path_name(fp)
        i    == rfind(name, ".")
    IN  IF 1 < i /\ i < Len(name) THEN SubSeq(name, i, Len(name)) ELSE <<>>

EXT_JSON == <<".","j","s","o","n">>
EXT_YAML == <<".","y","a","m","l">>
EXT_YML  == <<".","y","m","l">>
EXT_PY   == <<".","p","y">>

\* The keys of the `loaders` table.
loaders == {EXT_JSON, EXT_YAML, EXT_YML, EXT_PY}

UnsupportedFormat(ext, trace) ==
    Returned("ValueError", Outcome("ValueError", "unsupported_format", <<>>, NoIdx, ext, <<>>),
             trace, NoValue)

Prefixed(trace, r) == [r EXCEPT !.trace = trace \o r.trace]

\* loaders[ext](filepath)
dispatch(ext, files, fp, has_yaml) ==
    CASE ext = EXT_JSON -> Prefixed(<<"load_json_dataset">>, load_json_dataset(files, fp))
      [] ext \in {EXT_YAML, EXT_YML} ->
            Prefixed(<<"load_yaml_dataset">>, load_yaml_dataset(files, fp, has_yaml))
      [] ext = EXT_PY -> Prefixed(<<"load_python_dataset">>, load_python_dataset(files, fp))

\* A load_dataset that looks at the extension before it looks for the file.
load_dataset_format_first(files, fp, has_yaml) ==
    LET ext == lower(suffix(fp)) IN
        IF ext \notin loaders THEN UnsupportedFormat(ext, <<"suffix">>)
        ELSE IF files[fp] = NoFile THEN Raised("FileNotFoundError", <<"suffix", "os.path.exists">>)
        ELSE Prefixed(<<"suffix", "os.path.exists">>, dispatch(ext, files, fp, has_yaml))

load_dataset(files, fp, has_yaml) ==
    IF files[fp] = NoFile THEN Raised("FileNotFoundError", <<"os.path.exists">>)
    ELSE LET ext == lower(suffix(fp)) IN
        IF ext \notin loaders THEN UnsupportedFormat(ext, <<"os.path.exists", "suffix">>)
        ELSE Prefixed(<<"os.path.exists", "suffix">>, dispatch(ext, files, fp, has_yaml))

(***************************************************************************)
(* dataset_to_dict and save_dataset_json.  A module is kept as its dir()   *)
(* listing: its attributes in dir() order, each with its value.            *)
(***************************************************************************)
\* A reserved-prefix test that looks for '_' anywhere in the key.
underscore_anywhere(key) == \E i \in 1..Len(key.val) : key.val[i] = "_"

\* key.startswith('_') for a str key.
startswith_underscore(key) == Len(key.val) > 0 /\ key.val[1] = "_"

dataset_to_dict(ds) ==
    IF ds.kind = "Namespace" THEN PyDict(ds.val)
    ELSE LET public(kv) == ~startswith_underscore(kv[1]) IN PyDict(SelectSeq(ds.val, public))

\* A serializer that keeps the reserved-prefix keys.
serializable_data_keeping_private(d) ==
    LET kept(kv) == Serializable(kv[2]) IN PyDict(SelectSeq(d.val, kept))

\* The dict save_dataset_json hands to json.dump.
serializable_data(d) ==
    LET kept(kv) == ~startswith_underscore(kv[1]) /\ Serializable(kv[2])
    IN  PyDict(SelectSeq(d.val, kept))

\* Returns the outcome and the file system after the call.
save_dataset_json(files, ds, fp) ==
    LET d == IF ds.kind = "dict" THEN ds ELSE dataset_to_dict(ds) IN
        IF \E i \in 1..Len(d.val) : d.val[i][1].kind # "str"     \* no startswith
        THEN [out |-> Raised("AttributeError", <<"startswith">>), files |-> files]
        ELSE [out   |-> Returned("ok", Passed, <<"json.dumps", "open", "json.dump">>,
                                 serializable_data(d)),
              files |-> [files EXCEPT ![fp] = File("json", Encode(serializable_data(d)))]]

(***************************************************************************)
(* The trees drawn for direct validate_dataset calls.                      *)
(***************************************************************************)
SeqsUpTo(S, n) == UNION {[1..k -> S] : k \in 0..n}

V1   == PyStr(<<"v","1">>)
RYUV == PyStr(<<"r",".","y","u","v">>)
DYUV == PyStr(<<"d",".","y","u","v">>)
S1   == PyStr(<<"s","1">>)
NOTE == PyStr(<<"n","o","t","e">>)

RefFull    == PyDict(<< <<CONTENT_ID, PyInt(0)>>, <<CONTENT_NAME, V1>>, <<PATH, RYUV>> >>)
RefNoName  == PyDict(<< <<CONTENT_ID, PyInt(1)>>, <<PATH, RYUV>> >>)
RefNoId    == PyDict(<< <<CONTENT_NAME, V1>>, <<PATH, RYUV>> >>)
RefNoPath  == PyDict(<< <<CONTENT_ID, PyInt(0)>> >>)
RefScalar  == PyInt(7)

RefElems == {RefFull, RefNoName, RefNoId, RefNoPath, RefScalar}

OsDict  == PyDict(<< <<S1, PyInt(4)>> >>)
OsList  == PyList(<<PyInt(4), PyInt(5)>>)
OsTuple == PyTuple(<<PyInt(4)>>)

DisVideo(asset, os) ==
    PyDict(<< <<ASSET_ID, PyInt(asset)>>, <<CONTENT_ID, PyInt(0)>>, <<PATH, DYUV>>, <<OS, os>> >>)

DisOsDict   == DisVideo(0, OsDict)
DisOsList   == PyDict(<< <<ASSET_ID, PyInt(1)>>, <<CONTENT_ID, PyInt(1)>>, <<PATH, DYUV>>,
                       <<OS, OsList>>, <<NOTE, V1>> >>)
DisOsTuple  == DisVideo(0, OsTuple)
DisOsInt    == DisVideo(0, PyInt(4))
DisNoAsset  == PyDict(<< <<CONTENT_ID, PyInt(0)>>, <<PATH, DYUV>>, <<OS, OsDict>> >>)
DisNoId     == PyDict(<< <<ASSET_ID, PyInt(0)>>, <<PATH, DYUV>>, <<OS, OsDict>> >>)
DisNoOs     == PyDict(<< <<ASSET_ID, PyInt(0)>>, <<CONTENT_ID, PyInt(0)>>, <<PATH, DYUV>> >>)
DisNoPathOsInt == PyDict(<< <<ASSET_ID, PyInt(0)>>, <<CONTENT_ID, PyInt(0)>>, <<OS, PyInt(4)>> >>)
DisScalar   == S1

DisElems == {DisOsDict, DisOsList, DisOsTuple, DisOsInt, DisNoAsset, DisNoId,
             DisNoOs, DisNoPathOsInt, DisScalar}

\* ref_videos: absent (<<>>), a list, or a value that is no list.
RefEntries(n) ==
    {<<>>} \cup {<< <<REF_VIDEOS, v>> >> :
        v \in {PyList(s) : s \in SeqsUpTo(RefElems, n)} \cup {PyTuple(<<RefFull>>), PyDict(<<>>)}}

DisEntries(n) ==
    {<<>>} \cup {<< <<DIS_VIDEOS, v>> >> :
        v \in {PyList(s) : s \in SeqsUpTo(DisElems, n)} \cup {PyTuple(<<DisOsDict>>), PyNone}}

D1 == PyStr(<<"d","1">>)

ExtraEntries == {<<>>, << <<DATASET_NAME, D1>>, <<REF_SCORE, PyFloat(5)>> >>}

\* Mappings with at most nr references and nd distorted videos.
MappingTrees(nr, nd) ==
    {PyDict(x \o r \o d) : x \in ExtraEntries, r \in RefEntries(nr), d \in DisEntries(nd)}

\* Trees that are no mapping at the top.
OtherTrees ==
    {PyNone, PyInt(5), PyList(<<>>), PyList(<<REF_VIDEOS, DIS_VIDEOS>>), D1,
     PyStr(REF_VIDEOS.val \o <<" ">> \o DIS_VIDEOS.val)}

Trees(nr, nd) == MappingTrees(nr, nd) \cup OtherTrees

DJSON == <<"d",".","j","s","o","n">>

(***************************************************************************)
(* SpecValidate: a direct call validate_dataset(data, filepath).           *)
(***************************************************************************)
Result(op, status, error, trace) ==
    [op |-> op, status |-> status, error |-> error, trace |-> trace]

NotCalled == Result("none", "", Passed, <<>>)

InitValidate ==
    /\ data \in Trees(MaxRef, MaxDis)
    /\ filepath = <<>>
    /\ fs = <<>>
    /\ yaml_installed = TRUE
    /\ dataset = NoValue
    /\ loaded = NotCalled
    /\ dataset2 = NoValue
    /\ result = NotCalled

\* The caller passes the tree alone, or the tree and the path it came from.
CallValidate ==
    /\ result.op = "none"
    /\ \E fp \in {<<>>, DJSON} :
        /\ filepath' = fp
        /\ LET r == validate_dataset(data, fp) IN
            result' = Result("validate_dataset", r.status, r, <<"validate_dataset">>)
    /\ UNCHANGED <<data, fs, yaml_installed, dataset, loaded, dataset2>>

NextValidate == CallValidate

SpecValidate == InitValidate /\ [][NextValidate]_vars

(***************************************************************************)
(* Spec: one dataset file, as in the tests.  load_dataset(filepath) or     *)
(* load_json_dataset(filepath); then save_dataset_json(dataset, temp_path) *)
(* and load_json_dataset(temp_path).                                       *)
(***************************************************************************)
D_JSON       == <<"d",".","j","s","o","n">>
D_JSON_UPPER == <<"d",".","J","S","O","N">>
D_JSON_MIXED == <<"d",".","J","s","o","n">>
D_YAML       == <<"d",".","y","a","m","l">>
D_YML_UPPER  == <<"d",".","Y","M","L">>
D_PY         == <<"d",".","p","y">>
D_PY_MIXED   == <<"d",".","P","y">>
D_TXT        == <<"d",".","t","x","t">>
D_BARE       == <<"d","a","t","a">>
DOT_JSON     == <<"a",".","p","y","/",".","j","s","o","n">>

FileNames == {D_JSON, D_JSON_UPPER, D_JSON_MIXED, D_YAML, D_YML_UPPER, D_PY,
              D_PY_MIXED, D_TXT, D_BARE, DOT_JSON}

temp_path == <<"t",".","j","s","o","n">>

PRIVATE == PyStr(<<"_","c","a","c","h","e">>)
NP      == PyStr(<<"n","p">>)
DUNDER_NAME == PyStr(<<"_","_","n","a","m","e","_","_">>)

FileRefElems == {RefFull, RefNoName, RefNoPath}
FileDisElems == {DisOsDict, DisOsList, DisNoOs}

FileRefEntries(n) ==
    {<<>>, << <<REF_VIDEOS, PyDict(<<>>)>> >>}
        \cup {<< <<REF_VIDEOS, PyList(s)>> >> : s \in SeqsUpTo(FileRefElems, n)}

FileDisEntries(n) ==
    {<<>>} \cup {<< <<DIS_VIDEOS, PyList(s)>> >> : s \in SeqsUpTo(FileDisElems, n)}

FileExtraEntries ==
    {<<>>, << <<DATASET_NAME, D1>>, <<REF_SCORE, PyFloat(5)>>, <<PRIVATE, PyInt(1)>> >>}

\* The trees a JSON file can spell, with at most nr references and nd
\* distorted videos.
FileTrees(nr, nd) ==
    {PyDict(x \o r \o d) :
        x \in FileExtraEntries, r \in FileRefEntries(nr), d \in FileDisEntries(nd)}
        \cup {PyNone, PyInt(5)}

JsonFiles(nr, nd) == {File("json", Encode(t)) : t \in FileTrees(nr, nd)}

\* YAML text that is no JSON text: a mapping with the integer key 1.
YamlFiles ==
    {File("yaml", JObject(Encode(t).val \o << <<JNumber(1), JString(V1.val)>> >>)) :
        t \in {PyDict(<< <<REF_VIDEOS, PyList(<<RefFull>>)>>,
                         <<DIS_VIDEOS, PyList(<<DisOsList>>)>> >>),
               PyDict(<< <<REF_VIDEOS, PyList(<<>>)>> >>)}}

Module(attrs) == [kind |-> "module", val |-> attrs]

\* Legacy files, by the module they bind (attributes in dir() order).
PythonFiles ==
    {File("python", Module(m)) :
        m \in {<< <<DUNDER_NAME, PyStr(<<"d">>)>>, <<DATASET_NAME, D1>>,
                  <<DIS_VIDEOS, PyList(<<DisOsTuple>>)>>, <<NP, Opaque>>,
                  <<REF_SCORE, PyFloat(5)>>, <<REF_VIDEOS, PyList(<<RefFull>>)>> >>,
               << <<DUNDER_NAME, PyStr(<<"d">>)>>, <<DATASET_NAME, D1>>,
                  <<REF_VIDEOS, PyTuple(<<RefNoPath>>)>> >>,
               << <<DUNDER_NAME, PyStr(<<"d">>)>> >>}}

FileContents(nr, nd) == JsonFiles(nr, nd) \cup YamlFiles \cup PythonFiles \cup {Garbage}

Init ==
    /\ data = PyNone
    /\ filepath \in FileNames
    /\ \E content \in FileContents(MaxFileRef, MaxFileDis) \cup {NoFile} :
            fs = [p \in {filepath, temp_path} |-> IF p = filepath THEN content ELSE NoFile]
    /\ yaml_installed \in BOOLEAN
    /\ dataset = NoValue
    /\ loaded = NotCalled
    /\ dataset2 = NoValue
    /\ result = NotCalled

LoadDataset ==
    /\ result.op = "none" /\ dataset = NoValue
    /\ LET r == load_dataset(fs, filepath, yaml_installed) IN
        /\ result' = Result("load_dataset", r.status, r.error, r.trace)
        /\ loaded' = result'
        /\ dataset' = r.value
    /\ UNCHANGED <<data, filepath, fs, yaml_installed, dataset2>>

LoadJsonDataset ==
    /\ result.op = "none" /\ dataset = NoValue
    /\ LET r == load_json_dataset(fs, filepath) IN
        /\ result' = Result("load_json_dataset", r.status, r.error,
                            <<"load_json_dataset">> \o r.trace)
        /\ loaded' = result'
        /\ dataset' = r.value
    /\ UNCHANGED <<data, filepath, fs, yaml_installed, dataset2>>

SaveDatasetJson ==
    /\ dataset # NoValue
    /\ result.op \in {"none", "load_dataset", "load_json_dataset"}
    /\ LET s == save_dataset_json(fs, dataset, temp_path) IN
        /\ result' = Result("save_dataset_json", s.out.status, s.out.error, s.out.trace)
        /\ fs' = s.files
    /\ UNCHANGED <<data, filepath, yaml_installed, dataset, loaded, dataset2>>

ReloadJsonDataset ==
    /\ result.op = "save_dataset_json" /\ result.status = "ok"
    /\ LET r == load_json_dataset(fs, temp_path) IN
        /\ result' = Result("reload", r.status, r.error, <<"load_json_dataset">> \o r.trace)
        /\ dataset2' = r.value
    /\ UNCHANGED <<data, filepath, fs, yaml_installed, dataset, loaded>>

Next == LoadDataset \/ LoadJsonDataset \/ SaveDatasetJson \/ ReloadJsonDataset

Spec == Init /\ [][Next]_vars

(***************************************************************************)
(* SpecSave: save_dataset_json called with a dataset the caller built: a   *)
(* dict, a Namespace or a module.                                          *)
(***************************************************************************)
HANDLE == PyStr(<<"h","a","n","d","l","e">>)
IDS    == PyStr(<<"i","d","s">>)
ITEMS  == PyStr(<<"i","t","e","m","s">>)

\* Top-level entries: plain values, a reserved-prefix key, values json.dumps
\* rejects (an object, a list holding one, a dict keyed by a tuple), a tuple,
\* a dict keyed by an integer, and the integer key 1.
EntryPool ==
    { <<DATASET_NAME, D1>>,
      <<REF_VIDEOS, PyList(<<RefFull>>)>>,
      <<PRIVATE, PyInt(1)>>,
      <<HANDLE, Opaque>>,
      <<ITEMS, PyList(<<PyInt(1), Opaque>>)>>,
      <<OS, PyTuple(<<PyInt(4), PyInt(5)>>)>>,
      <<IDS, PyDict(<< <<PyInt(1), V1>> >>)>>,
      <<NOTE, PyDict(<< <<PyTuple(<<PyInt(1)>>), V1>> >>)>>,
      <<PyInt(1), V1>> }

\* The characters of attribute names in code point order.
CODE_ORDER == <<"0","1","2","3","4","5","6","7","8","9">> \o UPPER \o <<"_">> \o LOWER

Ord(c) == CHOOSE i \in 1..Len(CODE_ORDER) : CODE_ORDER[i] = c

\* a < b for two str values, as sorted() compares them.
StrLess(a, b) ==
    \E i \in 1..(Len(b)) :
        /\ \A j \in 1..(i - 1) : j <= Len(a) /\ a[j] = b[j]
        /\ \/ i = Len(a) + 1
           \/ i <= Len(a) /\ Ord(a[i]) < Ord(b[i])

\* At most n entries with distinct keys, in any order.
EntryLists(n) ==
    {s \in SeqsUpTo(EntryPool, n) : \A i, j \in 1..Len(s) : i # j => s[i][1] # s[j][1]}

StrKeyed(s) == \A i \in 1..Len(s) : s[i][1].kind = "str"

SaveInputs(n) ==
    {PyDict(s) : s \in EntryLists(n)}
        \cup {[kind |-> "Namespace", val |-> s] : s \in {e \in EntryLists(n) : StrKeyed(e)}}
        \cup {Module(s) : s \in {e \in EntryLists(n) :
                /\ StrKeyed(e)
                /\ \A i \in 1..(Len(e) - 1) : StrLess(e[i][1].val, e[i + 1][1].val)}}

InitSave ==
    /\ data = PyNone
    /\ filepath = <<>>
    /\ fs = [p \in {temp_path} |-> NoFile]
    /\ yaml_installed = TRUE
    /\ dataset \in SaveInputs(MaxEntries)
    /\ loaded = NotCalled
    /\ dataset2 = NoValue
    /\ result = NotCalled

NextSave == SaveDatasetJson \/ ReloadJsonDataset

SpecSave == InitSave /\ [][NextSave]_vars

(***************************************************************************)
(* The shape of a tree, stated without the validator.                      *)
(***************************************************************************)
HasKey(t, k) == t.kind = "dict" /\ \E i \in 1..Len(t.val) : t.val[i][1] = k

Lacks(e, f) == ~HasKey(e, f)

\* The elements of a list or tuple value; none for any other value.
Items(v) == IF v.kind \in {"list", "tuple"} THEN v.val ELSE <<>>

RefElemBad(e) == Lacks(e, CONTENT_ID) \/ Lacks(e, PATH)

DisElemFieldBad(e) ==
    Lacks(e, ASSET_ID) \/ Lacks(e, CONTENT_ID) \/ Lacks(e, PATH) \/ Lacks(e, OS)

DisElemOsBad(e) == HasKey(e, OS) /\ Get(e, OS).kind \notin {"list", "tuple", "dict"}

called_validate == result.op = "validate_dataset"

\* C1: validate_dataset raises DatasetValidationError, and no other error, for
\* every tree that lacks 'ref_videos' or 'dis_videos', has a ref_videos element
\* lacking 'content_id' or 'path', has a dis_videos element lacking 'asset_id',
\* 'content_id', 'path' or 'os', or has a dis_videos element whose 'os' is not a
\* list, tuple or dict.
C1_Case(t) ==
    \/ ~HasKey(t, REF_VIDEOS)
    \/ ~HasKey(t, DIS_VIDEOS)
    \/ \E i \in DOMAIN Items(Get(t, REF_VIDEOS)) : RefElemBad(Items(Get(t, REF_VIDEOS))[i])
    \/ \E i \in DOMAIN Items(Get(t, DIS_VIDEOS)) :
            \/ DisElemFieldBad(Items(Get(t, DIS_VIDEOS))[i])
            \/ DisElemOsBad(Items(Get(t, DIS_VIDEOS))[i])

C1_InvalidTreeRaisesValidationError ==
    (called_validate /\ C1_Case(data)) => result.status = "DatasetValidationError"

\* C2: validate_dataset returns without raising for every tree in which
\* 'ref_videos' and 'dis_videos' are both lists (possibly empty), every
\* ref_videos element is a dict with at least 'content_id' and 'path', and every
\* dis_videos element is a dict with at least 'asset_id', 'content_id', 'path'
\* and an 'os' that is a list, a tuple or a dict; extra keys do not matter.
C2_Case(t) ==
    /\ HasKey(t, REF_VIDEOS) /\ Get(t, REF_VIDEOS).kind = "list"
    /\ HasKey(t, DIS_VIDEOS) /\ Get(t, DIS_VIDEOS).kind = "list"
    /\ \A i \in DOMAIN Get(t, REF_VIDEOS).val : ~RefElemBad(Get(t, REF_VIDEOS).val[i])
    /\ \A i \in DOMAIN Get(t, DIS_VIDEOS).val :
            /\ ~DisElemFieldBad(Get(t, DIS_VIDEOS).val[i])
            /\ ~DisElemOsBad(Get(t, DIS_VIDEOS).val[i])

Violates(k, t) ==
    CASE k = 1 -> ~HasKey(t, REF_VIDEOS)
      [] k = 2 -> ~HasKey(t, DIS_VIDEOS)
      [] k = 3 -> HasKey(t, REF_VIDEOS) /\ Get(t, REF_VIDEOS).kind # "list"
      [] k = 4 -> /\ HasKey(t, REF_VIDEOS) /\ Get(t, REF_VIDEOS).kind = "list"
                  /\ \E i \in DOMAIN Get(t, REF_VIDEOS).val :
                        RefElemBad(Get(t, REF_VIDEOS).val[i])
      [] k = 5 -> HasKey(t, DIS_VIDEOS) /\ Get(t, DIS_VIDEOS).kind # "list"
      [] k = 6 -> /\ HasKey(t, DIS_VIDEOS) /\ Get(t, DIS_VIDEOS).kind = "list"
                  /\ \E i \in DOMAIN Get(t, DIS_VIDEOS).val :
                        DisElemFieldBad(Get(t, DIS_VIDEOS).val[i])
      [] k = 7 -> /\ HasKey(t, DIS_VIDEOS) /\ Get(t, DIS_VIDEOS).kind = "list"
                  /\ \E i \in DOMAIN Get(t, DIS_VIDEOS).val :
                        DisElemOsBad(Get(t, DIS_VIDEOS).val[i])

\* The check a DatasetValidationError reports, read off its message.
ReportedCheck(e) ==
    CASE e.what = "missing_top"  /\ e.field = REF_VIDEOS.val -> 1
      [] e.what = "missing_top"  /\ e.field = DIS_VIDEOS.val -> 2
      [] e.what = "must_be_list" /\ e.field = REF_VIDEOS.val -> 3
      [] e.what \in {"must_be_dict", "missing_field"} /\ e.container = REF_VIDEOS.val -> 4
      [] e.what = "must_be_list" /\ e.field = DIS_VIDEOS.val -> 5
      [] e.what \in {"must_be_dict", "missing_field"} /\ e.container = DIS_VIDEOS.val -> 6
      [] e.what = "os_shape" /\ e.container = DIS_VIDEOS.val -> 7
      [] OTHER -> 0

raised_validation_error == called_validate /\ result.status = "DatasetValidationError"

\* C9 as stated: of the violated checks the one reported is the first in the
\* order 1..7, so a missing field of any dis_videos element comes before an
\* unsupported 'os' of any other.
C9_FirstOfSevenChecksReported ==
    (raised_validation_error /\ Cardinality({k \in 1..7 : Violates(k, data)}) > 1)
        => /\ Violates(ReportedCheck(result.error), data)
           /\ \A j \in 1..7 : j < ReportedCheck(result.error) => ~Violates(j, data)

\* The order in which the fields of one element are looked up.
RefFieldOrder == <<CONTENT_ID, PATH>>
DisFieldOrder == <<ASSET_ID, CONTENT_ID, PATH, OS>>

\* error e names element idx of videos, the first that Bad holds of.
NamesFirstBad(e, videos, Bad(_)) ==
    /\ e.idx + 1 \in DOMAIN videos
    /\ Bad(videos[e.idx + 1])
    /\ \A j \in 1..e.idx : ~Bad(videos[j])

\* error e names what element v lacks first: being a dict, else a field in order.
NamesFirstLack(e, v, order) ==
    IF v.kind # "dict" THEN e.what = "must_be_dict"
    ELSE /\ e.what = "missing_field"
         /\ \E j \in DOMAIN order :
                /\ e.field = order[j].val
                /\ Lacks(v, order[j])
                /\ \A h \in 1..(j - 1) : ~Lacks(v, order[h])

DisElemBad(v) == DisElemFieldBad(v) \/ DisElemOsBad(v)

\* C9 amended: checks 1 to 5 come in the order stated; checks 6 and 7 are made
\* element by element, so the error names the first dis_videos element that
\* fails either, a missing field before the 'os' shape within that element.
C9_FirstViolationInCodeOrder ==
    raised_validation_error =>
        LET e == result.error
            k == ReportedCheck(e)
        IN  /\ k \in 1..7
            /\ \A j \in 1..5 : j < k => ~Violates(j, data)
            /\ k <= 5 => Violates(k, data)
            /\ k \in {1, 2, 3, 5} => e.idx = NoIdx
            /\ k = 4 =>
                /\ NamesFirstBad(e, Get(data, REF_VIDEOS).val, RefElemBad)
                /\ NamesFirstLack(e, Get(data, REF_VIDEOS).val[e.idx + 1], RefFieldOrder)
            /\ k \in {6, 7} =>
                /\ NamesFirstBad(e, Get(data, DIS_VIDEOS).val, DisElemBad)
                /\ (k = 6) = DisElemFieldBad(Get(data, DIS_VIDEOS).val[e.idx + 1])
                /\ k = 6 => NamesFirstLack(e, Get(data, DIS_VIDEOS).val[e.idx + 1],
                                           DisFieldOrder)
                /\ k = 7 => e.field = OS.val
            /\ e.source = filepath

\* An unsupported 'os' in element 0 has been reported although element 1 lacks
\* a required field.
C9_Witness ==
    /\ raised_validation_error
    /\ HasKey(data, DIS_VIDEOS)
    /\ Get(data, DIS_VIDEOS) = PyList(<<DisOsInt, DisNoOs>>)
    /\ result.error.what = "os_shape" /\ result.error.idx = 0

(***************************************************************************)
(* Claims about load_dataset and the loaders (Spec).                       *)
(***************************************************************************)
Stages(r) == {r.trace[i] : i \in 1..Len(r.trace)}

called_load_dataset == loaded.op = "load_dataset"

\* The tree the parser builds from the dataset file.
SourceTree == Decode(fs[filepath].text)

\* C3: load_dataset on a path that does not exist raises FileNotFoundError
\* whatever the extension, and does nothing but the existence check: no format
\* detection, no import of yaml, no parser.
C3_MissingFileRaisesNotFound ==
    (called_load_dataset /\ fs[filepath] = NoFile)
        => /\ loaded.status = "FileNotFoundError"
           /\ loaded.trace = <<"os.path.exists">>

\* A missing .txt file has been reported as not found.
C3_Witness ==
    /\ called_load_dataset /\ fs[filepath] = NoFile
    /\ filepath = D_TXT
    /\ loaded.status = "FileNotFoundError"

\* The loader each file name of the model selects, written out by hand.
ExpectedLoader(fp) ==
    CASE fp \in {D_JSON, D_JSON_UPPER, D_JSON_MIXED} -> "load_json_dataset"
      [] fp \in {D_YAML, D_YML_UPPER}                -> "load_yaml_dataset"
      [] fp \in {D_PY, D_PY_MIXED}                   -> "load_python_dataset"
      [] OTHER                                       -> "none"

AllLoaders == {"load_json_dataset", "load_yaml_dataset", "load_python_dataset"}

AllParsers == {"json.load", "yaml.safe_load", "load_module"}

\* C4: for an existing file the loader depends on the lower-cased extension
\* only, never on the content: .json, .yaml/.yml and .py in any letter case
\* select their loader; any other extension, or none, raises the
\* unsupported-format ValueError and no parser runs.
C4_LoaderChosenByExtension ==
    (called_load_dataset /\ fs[filepath] # NoFile)
        => IF ExpectedLoader(filepath) = "none"
           THEN /\ loaded.status = "ValueError"
                /\ loaded.error.what = "unsupported_format"
                /\ Stages(loaded) \cap (AllLoaders \cup AllParsers) = {}
           ELSE Stages(loaded) \cap AllLoaders = {ExpectedLoader(filepath)}

\* An upper-case .JSON file has been loaded by the JSON loader.
C4_Witness ==
    /\ called_load_dataset
    /\ filepath = D_JSON_UPPER
    /\ loaded.status = "ok"
    /\ "json.load" \in Stages(loaded)

\* The attribute k of a record, NoValue when it has none.
Attr(ns, k) ==
    IF \E i \in 1..Len(ns.val) : ns.val[i][1] = k THEN Get(ns, k) ELSE NoValue

loaded_by_json == loaded.status = "ok" /\ "json.load" \in Stages(loaded)

\* C5: a record R that load_json_dataset returned, saved by save_dataset_json
\* and loaded again by load_json_dataset, loads (the saved tree validates) and
\* has R's dataset_name, ref_score, len(ref_videos) and len(dis_videos).
C5_RoundTrip ==
    (result.op = "reload" /\ loaded_by_json)
        => /\ result.status = "ok"
           /\ dataset2.kind = "Namespace"
           /\ Attr(dataset2, DATASET_NAME) = Attr(dataset, DATASET_NAME)
           /\ Attr(dataset2, REF_SCORE) = Attr(dataset, REF_SCORE)
           /\ Len(Attr(dataset2, REF_VIDEOS).val) = Len(Attr(dataset, REF_VIDEOS).val)
           /\ Len(Attr(dataset2, DIS_VIDEOS).val) = Len(Attr(dataset, DIS_VIDEOS).val)

\* A record with a name, a score, a reserved-prefix attribute and two
\* references has gone through save and load; the reserved attribute is gone.
C5_Witness ==
    /\ result.op = "reload" /\ result.status = "ok" /\ loaded_by_json
    /\ Attr(dataset, DATASET_NAME) = D1
    /\ Attr(dataset, PRIVATE) # NoValue
    /\ Attr(dataset2, PRIVATE) = NoValue
    /\ Len(Attr(dataset, REF_VIDEOS).val) = 2

on_json_path == "load_json_dataset" \in Stages(loaded)
on_yaml_path == "load_yaml_dataset" \in Stages(loaded)
on_python_path == "load_python_dataset" \in Stages(loaded)

\* The file parses with the parser of the path taken.
source_parses ==
    \/ on_json_path /\ fs[filepath].format = "json"
    \/ on_yaml_path /\ yaml_installed /\ fs[filepath].format \in {"json", "yaml"}

\* stage a occurs in the trace, and stage b right after it.
Follows(r, a, b) ==
    \E i \in 1..(Len(r.trace) - 1) : r.trace[i] = a /\ r.trace[i + 1] = b

\* C7: on the JSON and YAML paths the parsed tree goes to the validator right
\* after parsing and before normalization; a record is returned only if the
\* tree passed, none when validation raises.  On the .py path the validator is
\* never invoked: a record is returned whenever the file exists and loads.
C7_ValidationOnDeclarativePathsOnly ==
    loaded.op # "none" =>
        /\ (on_json_path /\ source_parses) => Follows(loaded, "json.load", "validate_dataset")
        /\ (on_yaml_path /\ source_parses) =>
                Follows(loaded, "yaml.safe_load", "validate_dataset")
        /\ (on_json_path \/ on_yaml_path) =>
            /\ "_dict_to_namespace" \in Stages(loaded) =>
                    Follows(loaded, "validate_dataset", "_dict_to_namespace")
            /\ loaded.status = "ok" =>
                    source_parses /\ C2_Case(SourceTree) /\ dataset.kind = "Namespace"
            /\ (source_parses /\ ~C2_Case(SourceTree)) =>
                    /\ loaded.status \in {"DatasetValidationError", "TypeError"}
                    /\ "_dict_to_namespace" \notin Stages(loaded)
                    /\ dataset = NoValue
        /\ on_python_path =>
            /\ "validate_dataset" \notin Stages(loaded)
            /\ fs[filepath].format = "python" =>
                    loaded.status = "ok" /\ dataset = fs[filepath].text

\* A legacy file whose module has no dis_videos has been returned as a record.
C7_Witness ==
    /\ called_load_dataset /\ on_python_path
    /\ loaded.status = "ok"
    /\ dataset.kind = "module"
    /\ Attr(dataset, DIS_VIDEOS) = NoValue

Distinct(videos, field) ==
    \A i, j \in 1..Len(videos) : i # j => Get(videos[i], field) # Get(videos[j], field)

\* C8: in every record a JSON or YAML load returns, content_id is pairwise
\* distinct over ref_videos and asset_id pairwise distinct over dis_videos.
C8_IdsUnique ==
    (loaded.status = "ok" /\ dataset.kind = "Namespace")
        => /\ Distinct(Attr(dataset, REF_VIDEOS).val, CONTENT_ID)
           /\ Distinct(Attr(dataset, DIS_VIDEOS).val, ASSET_ID)

\* C10: normalization of a validated JSON or YAML tree always succeeds, and the
\* record has exactly the tree's top-level keys as attributes, each with the
\* value the tree holds.
C10_NormalizationTotal ==
    (loaded.op # "none" /\ source_parses /\ validate_dataset(SourceTree, filepath).status = "ok")
        => /\ loaded.status = "ok"
           /\ dataset.kind = "Namespace"
           /\ dataset.val = SourceTree.val

(***************************************************************************)
(* Claim about save_dataset_json (SpecSave).                               *)
(***************************************************************************)
\* The entry is written: its key has no reserved prefix, its value serializes.
Kept(e) == (Len(e[1].val) = 0 \/ e[1].val[1] # "_") /\ Serializable(e[2])

\* The position of the entry with key k among the entries.
PositionOf(entries, k) == CHOOSE i \in 1..Len(entries) : entries[i][1].val = k

====
